---- MODULE Spec2Model ----
(***************************************************************************)
(* Model of the Research-Paper-Analyser: the App component (React state,   *)
(* handleAnalyze and the other handlers) and the two gateway calls of      *)
(* services/gemini.ts (analyzePDF, analyzeAbstracts).                      *)
(*                                                                         *)
(* One action is one handler, or one stretch of handleAnalyze between two  *)
(* awaits: the code between two suspension points runs without             *)
(* interleaving, and React commits the state updates of such a stretch     *)
(* together.                                                               *)
(*                                                                         *)
(* A string that the code splits into lines is a non-empty sequence of     *)
(* lines: s.split('\n').  The empty string is <<"">>, and a + '\n' + b is  *)
(* the concatenation of the two sequences.                                 *)
(***************************************************************************)
EXTENDS Integers, Sequences, FiniteSets, TLC

\* ------------------------------------------------------------- bounds
\* Files that are ever uploaded (ids are Math.random strings, modelled as
\* distinct numbers handed out in upload order).
MaxUploads == 3
\* Records of the largest text input.
MaxPapers == 21
\* Lines of the longest model response that the row filter is applied to.
MaxLines == 3
\* User operations that change state (a started run, typing, an upload, a
\* removal, clear, a CSV import, an export) in a behaviour.
MaxOps == 3

\* ---------------------------------------------------- program constants
maxRetries == 3
batchSize == 10
backoffBase == 2000
interUnitDelay == 2000

\* -------------------------------------------------------------- lines
EmptyStr == <<"">>
NULL == "<null>"

RowA == "| 1 | X | ok |"
RowB == "| 2 | Z | ok |"
RowIndented == "  | 3 | W | ok |"
SepLine == "|---|---|---|"
HdrLine == "| Study ID | Paper title | Data |"
NoiseLine == "Here is the extracted table:"
NoResponse == "No response from AI."
PromptPlain == "Enter your prompt here"
PromptHdr == "| Study ID | Design |"
PromptSep == "|---|---|"
RowWithRule == "| 4 | A --- B | ok |"
RowStudyIdCaps == "| 5 | STUDY ID of twins | ok |"
ProseWithBar == "Result: a | b"
EmptyLine == ""

\* line.trim().startsWith('|')
TrimStartsWithBar(l) ==
  l \in {RowA, RowB, RowIndented, SepLine, HdrLine, PromptHdr, PromptSep, RowWithRule,
         RowStudyIdCaps}
\* line.includes('---')
IncludesSep(l) == l \in {SepLine, PromptSep, RowWithRule}
\* line.includes('|')
IncludesBar(l) ==
  l \in {RowA, RowB, RowIndented, SepLine, HdrLine, PromptHdr, PromptSep, RowWithRule,
         RowStudyIdCaps, ProseWithBar}
\* line.toLowerCase().includes('study id')
LowerIncludesStudyId(l) == l \in {HdrLine, PromptHdr, RowStudyIdCaps}
\* line.trim().endsWith('|')
TrimEndsWithBar(l) ==
  l \in {RowA, RowB, RowIndented, SepLine, HdrLine, PromptHdr, PromptSep, RowWithRule,
         RowStudyIdCaps}

\* Array.prototype.join('\n'): the joined string, as its sequence of lines
JoinLines(ls) == IF ls = <<>> THEN EmptyStr ELSE ls

\* a filter that looks for 'study id' without lowering the line
KeepRowCaseSensitive(l) == TrimStartsWithBar(l) /\ ~IncludesSep(l)

KeepRow(l) == TrimStartsWithBar(l) /\ ~IncludesSep(l) /\ ~LowerIncludesStudyId(l)

RECURSIVE Distinct(_)
Distinct(ls) ==
  IF ls = <<>> THEN <<>>
  ELSE LET front == Distinct(SubSeq(ls, 1, Len(ls) - 1))
       IN IF \E k \in DOMAIN front : front[k] = ls[Len(ls)]
          THEN front
          ELSE Append(front, ls[Len(ls)])

\* an extraction that keeps one copy of a repeated row
ExtractRowsDistinct(analysis) == JoinLines(Distinct(SelectSeq(analysis, KeepRow)))

\* analysis.split('\n').filter(...).join('\n')
ExtractRows(analysis) == JoinLines(SelectSeq(analysis, KeepRow))

KeepTableLine(l) == IncludesBar(l) /\ IncludesSep(l)

DefaultHeader == <<HdrLine, SepLine>>

\* userPrompt.split('\n').filter(...), then tableLines[0] or the default
TableHeader(prompt) ==
  LET tableLines == SelectSeq(prompt, KeepTableLine)
  IN IF Len(tableLines) > 0 THEN <<tableLines[1]>> ELSE DefaultHeader

\* the rows put in front of what was accumulated
Prepend2(acc, rows) == rows \o acc

\* accumulatedResult += '\n' + rows
Append2(acc, rows) == acc \o rows

\* response.text || "No response from AI."
ResponseText(text) == IF text = EmptyStr THEN <<NoResponse>> ELSE text

\* ------------------------------------------------------------- input
\* A text input is a sequence of tokens: k >= 1 is the marker "ID k:",
\* 0 is a whitespace character, -1 is any other text.
IsMarker(t) == t >= 1

\* the string itself, untrimmed, is non-empty
NonEmptyUntrimmed(s) == s # <<>>

\* s.trim() is non-empty
TrimNonEmpty(s) == \E k \in 1..Len(s) : s[k] # 0

RECURSIVE SplitRec(_, _, _)
SplitRec(s, cur, acc) ==
  IF s = <<>> THEN Append(acc, cur)
  ELSE IF IsMarker(Head(s)) /\ cur # <<>>
       THEN SplitRec(Tail(s), <<Head(s)>>, Append(acc, cur))
       ELSE SplitRec(Tail(s), Append(cur, Head(s)), acc)

\* input.split(/(?=ID \d+:)/g)
SplitAtMarkers(s) == SplitRec(s, <<>>, <<>>)

\* input.split(/(?=ID \d+:)/g).filter(s => s.trim())
Papers(s) == SelectSeq(SplitAtMarkers(s), TrimNonEmpty)

Min(a, b) == IF a < b THEN a ELSE b

\* a slice that stops one piece short
BatchShort(ps, idx) == SubSeq(ps, idx + 1, Min(idx + batchSize - 1, Len(ps)))

\* papers.slice(idx, idx + batchSize)
Batch(ps, idx) == SubSeq(ps, idx + 1, Min(idx + batchSize, Len(ps)))

RECURSIVE JoinParas(_)
\* batch.join('\n\n'): the pieces with blank space between them
JoinParas(batch) ==
  IF batch = <<>> THEN <<>>
  ELSE IF Len(batch) = 1 THEN batch[1]
  ELSE batch[1] \o <<0>> \o JoinParas(Tail(batch))

\* batchText
BatchText(ps, idx) == JoinParas(Batch(ps, idx))

RECURSIVE Pow2(_)
Pow2(n) == IF n = 0 THEN 1 ELSE 2 * Pow2(n - 1)

\* a linear backoff in place of the exponential one
BackoffDelayLinear(att) == (att + 1) * backoffBase

\* Math.pow(2, attempt) * 2000
BackoffDelay(att) == Pow2(att) * backoffBase

\* ------------------------------------------------------------ errors
\* A thrown value: an Error with a message, or something that is no Error
\* (the ProgressEvent that FileReader.onerror rejects with).
Err429 == [isError |-> TRUE, message |-> "got status: 429 Too Many Requests"]
ErrQuota == [isError |-> TRUE, message |-> "You exceeded your current quota"]
ErrFatal == [isError |-> TRUE, message |-> "API key not valid"]
ErrReader == [isError |-> FALSE, message |-> "<ProgressEvent>"]
ErrGeneric == [isError |-> TRUE, message |-> "Failed after multiple retries"]
Undefined == [isError |-> FALSE, message |-> "<undefined>"]

GatewayErrors == {Err429, ErrQuota, ErrFatal}

\* every failure taken for a rate-limit signal
IsRateLimitAny(e) == e.isError

\* a gateway that takes the 429 status alone for a rate-limit signal
IsRateLimit429Only(e) == e.message = Err429.message

\* error?.message?.includes('429') || error?.message?.includes('quota')
IsRateLimit(e) == e.message \in {Err429.message, ErrQuota.message}

UnexpectedMsg == "An unexpected error occurred during processing"
\* err instanceof Error ? err.message : '...'
ErrorText(e) == IF e.isError THEN e.message ELSE UnexpectedMsg

\* ----------------------------------------------------- input universes
RECURSIVE Records(_)
\* n records "ID k: Title ...", joined by "\n\n" as handleFileUpload
\* formats them
Records(n) ==
  IF n = 0 THEN <<>>
  ELSE IF n = 1 THEN <<1, -1>>
  ELSE Records(n - 1) \o <<0, n, -1>>

PaperCounts == {0, 1, batchSize + 1, MaxPapers}
\* What the user can type or paste: nothing, blanks, records, and records
\* after a preamble that has no "ID k:" marker
Inputs == {<<>>, <<0, 0>>, Records(1), <<-1, 0>> \o Records(batchSize), Records(MaxPapers)}

EmptyInput == <<>>

Prompts == {<<PromptPlain>>, <<PromptPlain, PromptHdr, PromptSep>>}

CsvText(n) == Records(n)

\* What generateContent can resolve with (response.text)
GatewayTexts == {EmptyStr, <<NoiseLine, HdrLine, SepLine, RowIndented, RowB>>}

CsvColumnsMsg == "Could not find recognizable columns (ID, Title, Abstract) in the CSV."
CsvParseMsg == "Error parsing CSV: malformed"
ExportMsg == "Could not parse the analysis result into a CSV format."

\* ------------------------------------------------------------- state
VARIABLES
  \* React state of App
  userPrompt, input, pdfFiles, result, loading, progress, error, mode,
  \* the running handleAnalyze: where it is suspended, and its locals
  \* (runMode, papers, runFiles come from the state its closure captured)
  pc, runMode, papers, runFiles, i, tableHeader, accumulatedResult,
  \* the running gateway call's locals
  attempt, lastError,
  \* ids handed out so far
  nextId,
  \* history: the kind of the last step, the unit events of the current run,
  \* the events of the current gateway call, the row groups appended in the
  \* current run, the setError calls of the current run's catch, and whether
  \* clearAll ran since the run started
  lastOp, runLog, gwLog, unitRows, errorSets, cleared,
  \* the number of user operations so far
  ops,
  \* the contents handed to the gateway call in flight: batchText (text
  \* mode), the file sent (file mode)
  request,
  \* the model response of the last unit (const analysis) and a second
  \* response, and what the row filter and the accumulation make of them
  analysis, analysis2, extracted, twoSteps, oneStep

appVars == <<userPrompt, input, pdfFiles, result, loading, progress, error, mode>>
runVars == <<pc, runMode, papers, runFiles, i, tableHeader, accumulatedResult, attempt, lastError,
             request>>
histVars == <<runLog, gwLog, unitRows, errorSets, cleared>>
fnVars == <<analysis, analysis2, extracted, twoSteps, oneStep>>
vars == <<appVars, runVars, nextId, lastOp, histVars, ops, fnVars>>

Ev(e, n, x) == [ev |-> e, n |-> n, err |-> x]

\* the value of a result that was not computed yet
NotApplied == <<>>

\* The state after construction, but for the text typed in and the model
\* responses at hand
InitButInput ==
  /\ userPrompt = <<PromptPlain>>
  /\ pdfFiles = <<>>
  /\ result = EmptyStr
  /\ loading = FALSE
  /\ progress = [current |-> 0, total |-> 0]
  /\ error = NULL
  /\ mode = "text"
  /\ pc = "idle"
  /\ runMode = "text"
  /\ papers = <<>>
  /\ runFiles = <<>>
  /\ i = 0
  /\ tableHeader = DefaultHeader
  /\ accumulatedResult = EmptyStr
  /\ attempt = 0
  /\ lastError = Undefined
  /\ nextId = 1
  /\ lastOp = "other"
  /\ runLog = <<>>
  /\ gwLog = <<>>
  /\ unitRows = <<>>
  /\ errorSets = 0
  /\ cleared = FALSE
  /\ ops = 0
  /\ request = <<>>
  /\ extracted = NotApplied
  /\ twoSteps = NotApplied
  /\ oneStep = NotApplied

Init ==
  /\ InitButInput
  /\ input = EmptyInput
  /\ analysis = EmptyStr
  /\ analysis2 = EmptyStr

\* a map that sets the status of every file
MarkStatusAll(files, id, st) ==
  [k \in DOMAIN files |-> [files[k] EXCEPT !.status = st]]

\* prev.map(f => f.id === id ? { ...f, status } : f)
MarkStatus(files, id, st) ==
  [k \in DOMAIN files |-> IF files[k].id = id THEN [files[k] EXCEPT !.status = st] ELSE files[k]]

\* mode === 'text' ? !input.trim() : pdfFiles.length === 0
InputEmpty(m, inp, files) == IF m = "text" THEN ~TrimNonEmpty(inp) ELSE Len(files) = 0

\* a button that is disabled on empty input only
ButtonDisabledOnEmptyOnly == InputEmpty(mode, input, pdfFiles)

\* disabled={loading || (...)} of the Run Analysis button
ButtonDisabled == loading \/ InputEmpty(mode, input, pdfFiles)

\* the early returns of handleAnalyze
EarlyReturn ==
  \/ (mode = "text" /\ ~TrimNonEmpty(input))
  \/ (mode = "pdf" /\ Len(pdfFiles) = 0)

\* the number of the unit the loop is at (1-based)
UnitNo == IF runMode = "text" THEN (i \div batchSize) + 1 ELSE i + 1
Total == IF runMode = "text" THEN Len(papers) ELSE Len(runFiles)

\* --------------------------------------------------- handleAnalyze
\* a failure that marks the unit and lets the loop go on to the next unit
ThrowToRunContinue(e) ==
  /\ pdfFiles' = IF runMode = "pdf"
                 THEN MarkStatus(pdfFiles, runFiles[i + 1].id, "error")
                 ELSE pdfFiles
  /\ error' = ErrorText(e)
  /\ IF UnitNo < (IF runMode = "text" THEN (Len(papers) + batchSize - 1) \div batchSize
                                       ELSE Len(runFiles))
     THEN loading' = loading /\ pc' = "unitDelay"
     ELSE loading' = FALSE /\ pc' = "idle"
  /\ runLog' = Append(runLog, Ev("fail", UnitNo, e))
  /\ errorSets' = errorSets + 1
  /\ UNCHANGED <<userPrompt, input, result, progress, mode, runMode, papers,
                 runFiles, i, tableHeader, accumulatedResult, nextId, unitRows, cleared, request>>

\* a failure path without the finally: loading is left as it is
ThrowToRunKeepLoading(e) ==
  /\ pdfFiles' = IF runMode = "pdf"
                 THEN MarkStatus(pdfFiles, runFiles[i + 1].id, "error")
                 ELSE pdfFiles
  /\ error' = ErrorText(e)
  /\ loading' = loading
  /\ pc' = "idle"
  /\ runLog' = Append(runLog, Ev("fail", UnitNo, e))
  /\ errorSets' = errorSets + 1
  /\ UNCHANGED <<userPrompt, input, result, progress, mode, runMode, papers,
                 runFiles, i, tableHeader, accumulatedResult, nextId, unitRows, cleared, request>>

\* a failure that also drops the rows shown so far
ThrowToRunReset(e) ==
  /\ pdfFiles' = IF runMode = "pdf"
                 THEN MarkStatus(pdfFiles, runFiles[i + 1].id, "error")
                 ELSE pdfFiles
  /\ error' = ErrorText(e)
  /\ loading' = FALSE
  /\ pc' = "idle"
  /\ result' = EmptyStr
  /\ runLog' = Append(runLog, Ev("fail", UnitNo, e))
  /\ errorSets' = errorSets + 1
  /\ UNCHANGED <<userPrompt, input, progress, mode, runMode, papers,
                 runFiles, i, tableHeader, accumulatedResult, nextId, unitRows, cleared, request>>

\* The catch blocks and the finally of handleAnalyze, entered with the
\* thrown value e: file mode marks the file (inner catch), then setError and
\* setLoading(false).
ThrowToRun(e) ==
  /\ pdfFiles' = IF runMode = "pdf"
                 THEN MarkStatus(pdfFiles, runFiles[i + 1].id, "error")
                 ELSE pdfFiles
  /\ error' = ErrorText(e)
  /\ loading' = FALSE
  /\ pc' = "idle"
  /\ runLog' = Append(runLog, Ev("fail", UnitNo, e))
  /\ errorSets' = errorSets + 1
  /\ UNCHANGED <<userPrompt, input, result, progress, mode, runMode, papers,
                 runFiles, i, tableHeader, accumulatedResult, nextId, unitRows, cleared, request>>

\* A click on Run Analysis that the guards let through: handleAnalyze up to
\* its first await.
HandleAnalyze ==
  /\ ~ButtonDisabled
  /\ ~EarlyReturn
  /\ ops < MaxOps
  /\ ops' = ops + 1
  /\ lastOp' = "request"
  /\ analysis' = EmptyStr
  /\ UNCHANGED <<analysis2, extracted, twoSteps, oneStep>>
  /\ loading' = (IF mode = "text" THEN Len(Papers(input)) > 0 ELSE Len(pdfFiles) > 0)
  /\ error' = NULL
  /\ result' = EmptyStr
  /\ tableHeader' = TableHeader(userPrompt)
  /\ accumulatedResult' = TableHeader(userPrompt)
  /\ runMode' = mode
  /\ i' = 0
  /\ attempt' = 0
  /\ lastError' = Undefined
  /\ unitRows' = <<>>
  /\ errorSets' = 0
  /\ cleared' = FALSE
  /\ IF mode = "text"
     THEN /\ papers' = Papers(input)
          /\ runFiles' = <<>>
          /\ progress' = [current |-> 0, total |-> Len(Papers(input))]
          /\ pdfFiles' = pdfFiles
          /\ IF Len(Papers(input)) > 0
             THEN /\ pc' = "call"
                  /\ runLog' = <<Ev("dispatch", 1, Undefined)>>
                  /\ gwLog' = <<Ev("attempt", 0, Undefined)>>
                  /\ request' = BatchText(Papers(input), 0)
             ELSE /\ pc' = "idle"
                  /\ runLog' = <<>>
                  /\ gwLog' = <<>>
                  /\ request' = <<>>
     ELSE /\ papers' = <<>>
          /\ runFiles' = pdfFiles
          /\ gwLog' = <<>>
          /\ request' = <<>>
          /\ IF Len(pdfFiles) > 0
             THEN /\ pdfFiles' = MarkStatus(pdfFiles, pdfFiles[1].id, "processing")
                  /\ progress' = [current |-> 1, total |-> Len(pdfFiles)]
                  /\ pc' = "encoding"
                  /\ runLog' = <<Ev("dispatch", 1, Undefined)>>
             ELSE /\ pdfFiles' = pdfFiles
                  /\ progress' = [current |-> 0, total |-> 0]
                  /\ pc' = "idle"
                  /\ runLog' = <<>>
  /\ UNCHANGED <<userPrompt, input, mode, nextId>>

\* A click on Run Analysis that a guard rejects: the disabled button, or the
\* early returns of handleAnalyze.
RunRejected ==
  /\ ButtonDisabled \/ EarlyReturn
  /\ lastOp' = "request"
  /\ UNCHANGED fnVars
  /\ UNCHANGED ops
  /\ UNCHANGED <<appVars, runVars, nextId, histVars>>

\* a file loop that is bounded by the current file list as well
MoreUnitsCurrent(m, idx, nPapers, nFiles) ==
  IF m = "text" THEN Min(idx + batchSize, nPapers) < nPapers
                ELSE idx < Min(nFiles, Len(pdfFiles)) - 1

\* a loop that is left after its first unit
MoreUnitsNever(m, idx, nPapers, nFiles) == FALSE

\* a loop that waits after every unit, the last one included
MoreUnitsAlways(m, idx, nPapers, nFiles) == TRUE

\* completed < totalPapers (text), i < total - 1 (files): another unit
\* follows, so the loop waits the inter-unit delay
MoreUnits(m, idx, nPapers, nFiles) ==
  IF m = "text" THEN Min(idx + batchSize, nPapers) < nPapers
                ELSE idx < nFiles - 1

\* fileToBase64 resolves: analyzePDF starts and makes its first call.
FileEncodedOk ==
  /\ pc = "encoding"
  /\ pc' = "call"
  /\ attempt' = 0
  /\ lastError' = Undefined
  /\ gwLog' = <<Ev("attempt", 0, Undefined)>>
  /\ request' = <<runFiles[i + 1].id>>
  /\ lastOp' = "other"
  /\ UNCHANGED fnVars
  /\ UNCHANGED ops
  /\ UNCHANGED <<appVars, runMode, papers, runFiles, i, tableHeader, accumulatedResult,
                 nextId, runLog, unitRows, errorSets, cleared>>

\* fileToBase64 rejects (reader.onerror).
FileEncodedFail ==
  /\ pc = "encoding"
  /\ ThrowToRun(ErrReader)
  /\ lastOp' = "other"
  /\ UNCHANGED fnVars
  /\ UNCHANGED ops
  /\ UNCHANGED <<attempt, lastError, gwLog>>

\* generateContent resolves: the gateway call returns, the rows are
\* extracted and appended, the counters set, and the loop either waits the
\* inter-unit delay or ends (finally: setLoading(false)).
GatewayResolveOf(texts) ==
  /\ pc = "call"
  /\ \E text \in texts :
       LET rows == ExtractRows(ResponseText(text))
           acc == Append2(accumulatedResult, rows)
           completed == Min(i + batchSize, Len(papers))
           more == MoreUnits(runMode, i, Len(papers), Len(runFiles))
       IN /\ accumulatedResult' = acc
          /\ result' = acc
          /\ analysis' = ResponseText(text)
          /\ unitRows' = Append(unitRows, rows)
          /\ gwLog' = Append(gwLog, Ev("resolve", attempt, Undefined))
          /\ progress' = IF runMode = "text"
                         THEN [current |-> completed, total |-> Len(papers)]
                         ELSE progress
          /\ pdfFiles' = IF runMode = "pdf"
                         THEN MarkStatus(pdfFiles, runFiles[i + 1].id, "completed")
                         ELSE pdfFiles
          /\ IF more
             THEN /\ pc' = "unitDelay"
                  /\ loading' = loading
                  /\ runLog' = runLog \o <<Ev("ok", UnitNo, Undefined),
                                           Ev("unitDelay", interUnitDelay, Undefined)>>
             ELSE /\ pc' = "idle"
                  /\ loading' = FALSE
                  /\ runLog' = Append(runLog, Ev("ok", UnitNo, Undefined))
  /\ lastOp' = "other"
  /\ UNCHANGED <<analysis2, extracted, twoSteps, oneStep>>
  /\ UNCHANGED ops
  /\ UNCHANGED <<userPrompt, input, error, mode, runMode, papers, runFiles, i,
                 tableHeader, attempt, lastError, nextId, errorSets, cleared, request>>

GatewayResolve == GatewayResolveOf(GatewayTexts)

\* generateContent rejects with e: the catch of the gateway call.
GatewayReject ==
  /\ pc = "call"
  /\ \E e \in GatewayErrors :
       /\ lastError' = e
       /\ IF IsRateLimit(e)
          THEN /\ pc' = "backoff"
               /\ gwLog' = gwLog \o <<Ev("reject", attempt, e),
                                      Ev("backoff", BackoffDelay(attempt), Undefined)>>
               /\ UNCHANGED <<appVars, runMode, papers, runFiles, i, tableHeader,
                              accumulatedResult, nextId, runLog, unitRows, errorSets, cleared, request>>
          ELSE /\ gwLog' = gwLog \o <<Ev("reject", attempt, e), Ev("throw", attempt, e)>>
               /\ ThrowToRun(e)
  /\ lastOp' = "other"
  /\ UNCHANGED fnVars
  /\ UNCHANGED ops
  /\ UNCHANGED attempt

\* The backoff timer fires: attempt++, then the next call, or the throw
\* after the loop.
BackoffDone ==
  /\ pc = "backoff"
  /\ attempt' = attempt + 1
  /\ IF attempt + 1 < maxRetries
     THEN /\ pc' = "call"
          /\ gwLog' = Append(gwLog, Ev("attempt", attempt + 1, Undefined))
          /\ UNCHANGED <<appVars, runMode, papers, runFiles, i, tableHeader,
                         accumulatedResult, nextId, runLog, unitRows, errorSets, cleared, request>>
     ELSE LET thrown == IF lastError = Undefined THEN ErrGeneric ELSE lastError
          IN /\ gwLog' = Append(gwLog, Ev("throw", attempt + 1, thrown))
             /\ ThrowToRun(thrown)
  /\ lastOp' = "other"
  /\ UNCHANGED fnVars
  /\ UNCHANGED ops
  /\ UNCHANGED lastError

\* The inter-unit timer fires: the loop moves to the next unit and
\* dispatches it.
UnitDelayDone ==
  /\ pc = "unitDelay"
  /\ attempt' = 0
  /\ lastError' = Undefined
  /\ IF runMode = "text"
     THEN /\ i' = i + batchSize
          /\ progress' = [current |-> i + batchSize, total |-> Len(papers)]
          /\ pdfFiles' = pdfFiles
          /\ pc' = "call"
          /\ gwLog' = <<Ev("attempt", 0, Undefined)>>
          /\ request' = BatchText(papers, i + batchSize)
          /\ runLog' = Append(runLog, Ev("dispatch", (i + batchSize) \div batchSize + 1, Undefined))
     ELSE /\ i' = i + 1
          /\ pdfFiles' = MarkStatus(pdfFiles, runFiles[i + 2].id, "processing")
          /\ progress' = [current |-> i + 2, total |-> Len(runFiles)]
          /\ pc' = "encoding"
          /\ gwLog' = <<>>
          /\ request' = <<>>
          /\ runLog' = Append(runLog, Ev("dispatch", i + 2, Undefined))
  /\ lastOp' = "other"
  /\ UNCHANGED fnVars
  /\ UNCHANGED ops
  /\ UNCHANGED <<userPrompt, input, result, loading, error, mode, runMode, papers,
                 runFiles, tableHeader, accumulatedResult, nextId, unitRows, errorSets, cleared>>

\* ------------------------------------------------------ other handlers
SetUserPrompt ==
  /\ \E p \in Prompts : userPrompt' = p
  /\ lastOp' = "other"
  /\ UNCHANGED fnVars
  /\ ops < MaxOps
  /\ ops' = ops + 1
  /\ UNCHANGED <<input, pdfFiles, result, loading, progress, error, mode,
                 runVars, nextId, histVars>>

SetInput ==
  /\ \E s \in Inputs : input' = s
  /\ lastOp' = "other"
  /\ UNCHANGED fnVars
  /\ ops < MaxOps
  /\ ops' = ops + 1
  /\ UNCHANGED <<userPrompt, pdfFiles, result, loading, progress, error, mode,
                 runVars, nextId, histVars>>

SetMode ==
  /\ \E m \in {"text", "pdf"} : mode' = m
  /\ lastOp' = "other"
  /\ UNCHANGED fnVars
  /\ ops < MaxOps
  /\ ops' = ops + 1
  /\ UNCHANGED <<userPrompt, input, pdfFiles, result, loading, progress, error,
                 runVars, nextId, histVars>>

NewFiles(first, n) == [k \in 1..n |-> [id |-> first + k - 1, status |-> "queued"]]

HandlePdfUpload ==
  /\ \E n \in 0..MaxUploads :
       /\ nextId + n <= MaxUploads + 1
       /\ pdfFiles' = pdfFiles \o NewFiles(nextId, n)
       /\ nextId' = nextId + n
  /\ mode' = "pdf"
  /\ lastOp' = "other"
  /\ UNCHANGED fnVars
  /\ ops < MaxOps
  /\ ops' = ops + 1
  /\ UNCHANGED <<userPrompt, input, result, loading, progress, error, runVars, histVars>>

RemovePdf ==
  /\ \E k \in DOMAIN pdfFiles :
       LET IsOther(f) == f.id # pdfFiles[k].id
       IN pdfFiles' = SelectSeq(pdfFiles, IsOther)
  /\ lastOp' = "other"
  /\ UNCHANGED fnVars
  /\ ops < MaxOps
  /\ ops' = ops + 1
  /\ UNCHANGED <<userPrompt, input, result, loading, progress, error, mode,
                 runVars, nextId, histVars>>

\* Papa.parse calls complete: the rows with a title or an abstract become
\* the input text, or no row has one.
CsvComplete ==
  /\ \E n \in PaperCounts :
       IF n > 0
       THEN /\ input' = CsvText(n)
            /\ mode' = "text"
            /\ error' = NULL
       ELSE /\ error' = CsvColumnsMsg
            /\ UNCHANGED <<input, mode>>
  /\ lastOp' = "other"
  /\ UNCHANGED fnVars
  /\ ops < MaxOps
  /\ ops' = ops + 1
  /\ UNCHANGED <<userPrompt, pdfFiles, result, loading, progress, runVars, nextId, histVars>>

\* Papa.parse calls error.
CsvError ==
  /\ error' = CsvParseMsg
  /\ lastOp' = "other"
  /\ UNCHANGED fnVars
  /\ ops < MaxOps
  /\ ops' = ops + 1
  /\ UNCHANGED <<userPrompt, input, pdfFiles, result, loading, progress, mode,
                 runVars, nextId, histVars>>

KeepTable(l) == TrimStartsWithBar(l) /\ TrimEndsWithBar(l)
KeepData(l) == ~IncludesSep(l)

\* parseMarkdownTable(markdown) === null
ParseFails(markdown) == Len(SelectSeq(SelectSeq(markdown, KeepTable), KeepData)) < 2

\* The Download CSV button (rendered when result is non-empty).
DownloadCSV ==
  /\ result # EmptyStr
  /\ error' = IF ParseFails(result) THEN ExportMsg ELSE error
  /\ lastOp' = "other"
  /\ UNCHANGED fnVars
  /\ ops < MaxOps
  /\ ops' = ops + 1
  /\ UNCHANGED <<userPrompt, input, pdfFiles, result, loading, progress, mode,
                 runVars, nextId, histVars>>

ClearAll ==
  /\ input' = EmptyInput
  /\ pdfFiles' = <<>>
  /\ result' = EmptyStr
  /\ error' = NULL
  /\ cleared' = TRUE
  /\ lastOp' = "other"
  /\ UNCHANGED fnVars
  /\ ops < MaxOps
  /\ ops' = ops + 1
  /\ UNCHANGED <<userPrompt, loading, progress, mode, runVars, nextId,
                 runLog, gwLog, unitRows, errorSets>>

Next ==
  \/ HandleAnalyze
  \/ RunRejected
  \/ FileEncodedOk
  \/ FileEncodedFail
  \/ GatewayResolve
  \/ GatewayReject
  \/ BackoffDone
  \/ UnitDelayDone
  \/ SetUserPrompt
  \/ SetInput
  \/ SetMode
  \/ HandlePdfUpload
  \/ RemovePdf
  \/ CsvComplete
  \/ CsvError
  \/ DownloadCSV
  \/ ClearAll

Spec == Init /\ [][Next]_vars

\* ------------------------------------------------------------ progress
\* A step of the running handleAnalyze: the file read, the gateway call or
\* a timer returns
RunStep ==
  \/ FileEncodedOk
  \/ FileEncodedFail
  \/ GatewayResolve
  \/ GatewayReject
  \/ BackoffDone
  \/ UnitDelayDone

\* Every file read, gateway call and timer that is pending returns in the
\* end
FairSpec == Init /\ [][Next]_vars /\ WF_vars(RunStep)

\* ------------------------------------- the row filter and the accumulation
RawLines == {EmptyLine, NoiseLine, ProseWithBar, HdrLine, SepLine, RowA, RowB, RowIndented,
             RowWithRule, RowStudyIdCaps}

\* Model responses of 1..MaxLines lines
RawOutputs == UNION {[1..n -> RawLines] : n \in 1..MaxLines}

\* The responses that come second
SecondOutputs == {EmptyStr, <<NoiseLine>>, <<RowA>>, <<SepLine, RowB>>}

RowsInit ==
  /\ InitButInput
  /\ input = EmptyInput
  /\ analysis \in RawOutputs
  /\ analysis2 \in SecondOutputs

\* const rows = analysis.split('\n').filter(...).join('\n')
Extract ==
  /\ extracted = NotApplied
  /\ extracted' = ExtractRows(analysis)
  /\ UNCHANGED <<appVars, runVars, nextId, lastOp, histVars, ops,
                 analysis, analysis2, twoSteps, oneStep>>

\* Two units: the rows of the first response are appended, then the rows
\* of the second
AccumulateTwice ==
  /\ twoSteps = NotApplied
  /\ twoSteps' = Append2(Append2(tableHeader, ExtractRows(analysis)), ExtractRows(analysis2))
  /\ UNCHANGED <<appVars, runVars, nextId, lastOp, histVars, ops,
                 analysis, analysis2, extracted, oneStep>>

\* One unit whose response is the first response followed by the second
AccumulateOnce ==
  /\ oneStep = NotApplied
  /\ oneStep' = Append2(tableHeader, ExtractRows(analysis \o analysis2))
  /\ UNCHANGED <<appVars, runVars, nextId, lastOp, histVars, ops,
                 analysis, analysis2, extracted, twoSteps>>

RowsNext ==
  \/ Extract
  \/ AccumulateTwice
  \/ AccumulateOnce

RowsSpec == RowsInit /\ [][RowsNext]_vars

\* ---------------------------------------------- runs over pasted records
\* The text of 1..MaxPapers records "ID k: ..." and nothing else
WellFormedInputs == {Records(n) : n \in 1..MaxPapers}

\* What generateContent resolves with in these runs: a table whose data row
\* comes twice, or nothing
TextRunTexts == {<<RowA, SepLine, RowA>>, EmptyStr}

\* The records are in the text box, text mode is on
TextInit ==
  /\ InitButInput
  /\ input \in WellFormedInputs
  /\ analysis = EmptyStr
  /\ analysis2 = EmptyStr

TextGatewayResolve == GatewayResolveOf(TextRunTexts)

TextNext ==
  \/ HandleAnalyze
  \/ TextGatewayResolve
  \/ GatewayReject
  \/ BackoffDone
  \/ UnitDelayDone

TextSpec == TextInit /\ [][TextNext]_vars

\* ------------------------------------------------------------ claims
Last(q) == q[Len(q)]

IsAttempt(x) == x.ev = "attempt"
IsBackoff(x) == x.ev = "backoff"
IsReject(x) == x.ev = "reject"
IsOk(x) == x.ev = "ok"

\* The rate-limit signals among the errors the gateway is given here
RateLimitSignal(e) == e \in {Err429, ErrQuota}

\* The gateway call has thrown after every one of its attempts was rejected
\* with a rate-limit signal
Exhausted ==
  /\ gwLog # <<>>
  /\ Last(gwLog).ev = "throw"
  /\ \A p \in DOMAIN gwLog : IsReject(gwLog[p]) => RateLimitSignal(gwLog[p].err)

Delays(log) == [k \in DOMAIN SelectSeq(log, IsBackoff) |-> SelectSeq(log, IsBackoff)[k].n]

C2_FatalPropagates ==
  \A p \in DOMAIN gwLog :
    (IsReject(gwLog[p]) /\ ~RateLimitSignal(gwLog[p].err)) =>
      /\ Len(gwLog) = p + 1
      /\ gwLog[p + 1].ev = "throw"
      /\ gwLog[p + 1].err = gwLog[p].err
      /\ Len(SelectSeq(gwLog, IsAttempt)) = gwLog[p].n + 1
      /\ Len(SelectSeq(gwLog, IsBackoff)) = gwLog[p].n
      /\ (gwLog[p].n = 0 => Len(gwLog) = 3)
      /\ pc = "idle"
      /\ Last(runLog).ev = "fail" /\ Last(runLog).err = gwLog[p].err

\* C2 witness: the first attempt of a text-mode call fails fatally
C2_Witness ==
  /\ runMode = "text"
  /\ Len(gwLog) = 3
  /\ IsReject(gwLog[2]) /\ gwLog[2].err = ErrFatal
  /\ error = ErrFatal.message

IsFail(x) == x.ev = "fail"
IsDispatch(x) == x.ev = "dispatch"

\* The units of the current run
NumUnits ==
  IF runMode = "text" THEN (Len(papers) + batchSize - 1) \div batchSize
                      ELSE Len(runFiles)

\* C3: fail-fast, in text and in file mode: once a unit of a run has failed
\* (its gateway call or its encoding), the failure is the last event of the
\* run, so no unit is dispatched and no gateway attempt is made after it,
\* the run is over, and the run has set the error exactly once.
C3_FailFast ==
  /\ errorSets <= 1
  /\ (errorSets = 1) = (runLog # <<>> /\ IsFail(Last(runLog)))
  /\ \A p \in DOMAIN runLog :
       IsFail(runLog[p]) =>
         /\ p = Len(runLog)
         /\ pc = "idle"
         /\ ~loading
         /\ Len(SelectSeq(runLog, IsDispatch)) = runLog[p].n
         /\ (gwLog # <<>> => Last(gwLog).ev = "throw")

\* C3 witness: the second of three files failed
C3_Witness ==
  /\ runMode = "pdf"
  /\ Len(runFiles) = 3
  /\ runLog # <<>>
  /\ IsFail(Last(runLog))
  /\ Last(runLog).n = 2
  /\ error # NULL

RECURSIVE Flatten(_)
Flatten(groups) == IF groups = <<>> THEN <<>> ELSE Head(groups) \o Flatten(Tail(groups))

\* The step in which a unit of the run fails
FailStep == Len(runLog') = Len(runLog) + 1 /\ IsFail(Last(runLog'))

\* C4: the step in which unit k fails leaves the visible result as it was;
\* unless clearAll ran during the run, that is the value published after the
\* last completed unit: the header and the row groups of units 1..k-1 in
\* order (for k = 1, the empty result the run started with).
C4_FailureKeepsRows ==
  [][FailStep =>
       /\ result' = result
       /\ accumulatedResult' = accumulatedResult
       /\ Len(unitRows) = Last(runLog').n - 1
       /\ (~cleared =>
             result' = IF unitRows = <<>> THEN EmptyStr
                       ELSE tableHeader \o Flatten(unitRows))]_vars

\* C4 witness: the third unit failed after two units with different rows
C4_Witness ==
  /\ runLog # <<>>
  /\ IsFail(Last(runLog))
  /\ Last(runLog).n = 3
  /\ ~cleared
  /\ unitRows[1] # unitRows[2]
  /\ result = tableHeader \o unitRows[1] \o unitRows[2]

progVars == <<appVars, runVars, nextId, histVars>>

\* C5: at most one run is active: while handleAnalyze is in flight loading
\* is true, and a run request made while loading is true changes nothing:
\* it starts no processing loop, makes no gateway call and leaves the
\* running loop where it is.
C5_SingleRun ==
  [][/\ (pc # "idle" => loading)
     /\ (pc' # "idle" => loading')
     /\ ((lastOp' = "request" /\ loading) => UNCHANGED progVars)]_vars

\* C5 witness: a request was rejected while the run waited in a backoff,
\* with input that is not empty
C5_Witness ==
  /\ lastOp = "request"
  /\ pc = "backoff"
  /\ loading
  /\ mode = "pdf"
  /\ Len(pdfFiles) = 2

Rank(st) == IF st = "queued" THEN 0 ELSE IF st = "processing" THEN 1 ELSE 2

\* The ids of the files that the run of log (over the files fs) has finished
DoneIds(log, fs) ==
  {fs[log[p].n].id : p \in {q \in DOMAIN log : IsOk(log[q]) \/ IsFail(log[q])}}

\* C6 as stated: over any sequence of operations, several runs over the
\* same files included, a file whose status is completed or error never
\* takes the status processing or queued again.
C6_NeverRegresses ==
  [][\A a \in DOMAIN pdfFiles : \A b \in DOMAIN pdfFiles' :
       (pdfFiles[a].id = pdfFiles'[b].id /\ pdfFiles[a].status \in {"completed", "error"})
         => pdfFiles'[b].status \notin {"processing", "queued"}]_vars

\* C6 as amended: no file ever takes queued again, and a status moves
\* backwards in one way only: a file left completed or error by an earlier
\* run becomes processing when a later run dispatches it; within one run
\* the status of a file moves forward only.
C6_ForwardWithinRun ==
  [][\A a \in DOMAIN pdfFiles : \A b \in DOMAIN pdfFiles' :
       pdfFiles[a].id = pdfFiles'[b].id =>
         \/ Rank(pdfFiles'[b].status) > Rank(pdfFiles[a].status)
         \/ pdfFiles'[b].status = pdfFiles[a].status
         \/ /\ pdfFiles[a].status \in {"completed", "error"}
            /\ pdfFiles'[b].status = "processing"
            /\ runLog' # <<>>
            /\ IsDispatch(Last(runLog'))
            /\ runFiles'[Last(runLog').n].id = pdfFiles[a].id
            /\ pdfFiles[a].id \notin DoneIds(runLog', runFiles')]_vars

\* C6 witness: a second run over two completed files has dispatched the
\* first, which is processing again, and not yet the second
C6_Witness ==
  /\ Len(pdfFiles) = 2
  /\ pdfFiles[1].status = "processing"
  /\ pdfFiles[2].status = "completed"
  /\ runLog = <<Ev("dispatch", 1, Undefined)>>

\* C7: a run request on empty input (text mode with nothing but blanks,
\* file mode with no file) starts no run and changes no state: loading,
\* result, progress, file statuses, error and the run's own state stay as
\* they were, and no gateway call is made.
C7_EmptyRequestNoOp ==
  [][(/\ lastOp' = "request"
      /\ \/ (mode = "text" /\ \A k \in DOMAIN input : input[k] = 0)
         \/ (mode = "pdf" /\ pdfFiles = <<>>))
       => UNCHANGED progVars]_vars

\* C7 witness: a request on blank text was rejected after a finished run,
\* whose result is still shown
C7_Witness ==
  /\ lastOp = "request"
  /\ mode = "text"
  /\ input = <<0, 0>>
  /\ ~loading
  /\ result # EmptyStr

\* a is a prefix of b, as sequences of lines
IsPrefix(a, b) == Len(a) <= Len(b) /\ SubSeq(b, 1, Len(a)) = a

\* The step in which a unit completes and its rows are published
PublishStep == Len(unitRows') = Len(unitRows) + 1

\* The numbers of the units that completed, in the order of completion
OkUnits == [k \in DOMAIN SelectSeq(runLog, IsOk) |-> SelectSeq(runLog, IsOk)[k].n]

\* C8: during a run the accumulated result is the header followed by the
\* row groups of the completed units, which are the units 1..m in
\* submission order; a unit that completes publishes the accumulated result
\* with its row group appended, so the value published before is a prefix of
\* the value published now and no earlier row group is moved, dropped or
\* merged.
C8_AppendOnly ==
  [][/\ (runLog' # <<>> =>
           /\ accumulatedResult' = tableHeader' \o Flatten(unitRows')
           /\ OkUnits' = [k \in 1..Len(unitRows') |-> k])
     /\ (PublishStep =>
           /\ result' = accumulatedResult'
           /\ accumulatedResult' = accumulatedResult \o Last(unitRows')
           /\ IsPrefix(accumulatedResult, result')
           /\ (result # EmptyStr => result = accumulatedResult)
           /\ SubSeq(unitRows', 1, Len(unitRows)) = unitRows
           /\ tableHeader' = tableHeader)]_vars

\* C8 witness: two text batches completed, the first without any row, the
\* second with rows, under a header taken from the prompt
C8_Witness ==
  /\ runMode = "text"
  /\ Len(unitRows) = 2
  /\ unitRows[1] = EmptyStr
  /\ unitRows[2] = <<RowIndented, RowB>>
  /\ tableHeader = <<PromptSep>>
  /\ result = <<PromptSep, "", RowIndented, RowB>>

\* The work items of the run that have completed: the records of the
\* batches that succeeded, or the files whose unit succeeded
CompletedItems ==
  IF runMode = "text" THEN Min(Len(unitRows) * batchSize, Len(papers))
                      ELSE Len(unitRows)

\* C9 as stated: in every state of a run (from its start on) progress.current
\* is the number of work items completed so far and progress.total the
\* number of work items of the run; a failed unit is not counted.
C9_CompletedOfTotal ==
  runLog # <<>> =>
    /\ progress.current = CompletedItems
    /\ progress.total = Total

\* C10: in both modes the run waits the inter-unit delay of 2000 ms exactly
\* once between the completion of a unit that is not the last and the
\* dispatch of the next unit, and never after the last unit or after a
\* failed unit: in the run's events every completion of a non-final unit is
\* followed at once by one delay, every delay follows such a completion and
\* precedes the next dispatch, and a final completion or a failure ends the
\* events.
C10_InterUnitDelay ==
  \A p \in DOMAIN runLog :
    /\ IsOk(runLog[p]) =>
         IF runLog[p].n < NumUnits
         THEN /\ p < Len(runLog)
              /\ runLog[p + 1] = Ev("unitDelay", 2000, Undefined)
              /\ (p + 1 = Len(runLog) => pc = "unitDelay")
              /\ (p + 1 < Len(runLog) =>
                    runLog[p + 2] = Ev("dispatch", runLog[p].n + 1, Undefined))
         ELSE p = Len(runLog) /\ pc = "idle"
    /\ IsFail(runLog[p]) => p = Len(runLog)
    /\ runLog[p].ev = "unitDelay" =>
         /\ p > 1
         /\ IsOk(runLog[p - 1])
         /\ runLog[p - 1].n < NumUnits
    /\ IsDispatch(runLog[p]) =>
         IF p = 1 THEN runLog[p].n = 1
         ELSE /\ runLog[p - 1] = Ev("unitDelay", 2000, Undefined)
              /\ p > 2
              /\ runLog[p - 2] = Ev("ok", runLog[p].n - 1, Undefined)

\* C10 witness: the run waits the inter-unit delay after a unit that
\* succeeded on its third attempt, after two backoffs
C10_Witness ==
  /\ pc = "unitDelay"
  /\ runMode = "text"
  /\ Len(SelectSeq(gwLog, IsBackoff)) = 2
  /\ Last(runLog) = Ev("unitDelay", 2000, Undefined)

\* The file call of the current unit was rejected fewer than 3 times so far,
\* each time with a rate-limit signal
Recovering ==
  /\ runMode = "pdf"
  /\ gwLog # <<>>
  /\ Len(SelectSeq(gwLog, IsReject)) < 3
  /\ \A p \in DOMAIN gwLog : IsReject(gwLog[p]) => RateLimitSignal(gwLog[p].err)

\* ... and the call has returned after at least one such rejection
Recovered ==
  /\ Recovering
  /\ Last(gwLog).ev = "resolve"
  /\ Len(SelectSeq(gwLog, IsReject)) >= 1

RunErrorTexts == {ErrorText(e) : e \in GatewayErrors \cup {ErrReader, ErrGeneric}}

\* What the orchestrator shows while a file call recovers and after it has
\* recovered: no failure of the run, no error of the run, the file
\* processing until the call returns and completed from then on, the files
\* before it completed.
RecoveryUnseen ==
  Recovering =>
    /\ Last(gwLog).ev # "throw"
    /\ \A p \in DOMAIN runLog : runLog[p].ev # "fail"
    /\ errorSets = 0
    /\ error \notin RunErrorTexts
    /\ \A k \in DOMAIN pdfFiles :
         /\ pdfFiles[k].id = runFiles[i + 1].id =>
              pdfFiles[k].status =
                (IF Last(gwLog).ev = "resolve" THEN "completed" ELSE "processing")
         /\ \A j \in 1..i :
              pdfFiles[k].id = runFiles[j].id => pdfFiles[k].status = "completed"
    /\ (Last(gwLog).ev = "resolve" /\ pc # "idle") =>
         /\ pc = "unitDelay"
         /\ Len(runLog) >= 2
         /\ runLog[Len(runLog) - 1] = Ev("ok", i + 1, Undefined)
         /\ Last(runLog) = Ev("unitDelay", 2000, Undefined)

\* C11: a file call that is rejected with rate-limit signals fewer than 3
\* times and then succeeds stays invisible to the run: the files up to this
\* one end completed, the run sets no error, the file is never marked error
\* (it is processing until the call returns, completed afterwards), and the
\* next file is dispatched only out of the inter-unit delay that follows
\* this file's completion.
C11_RecoveredRetryInvisible ==
  [][/\ RecoveryUnseen
     /\ RecoveryUnseen'
     /\ (Recovered /\ pc # "idle" /\ runLog' # runLog) =>
          /\ pc = "unitDelay"
          /\ Last(runLog) = Ev("unitDelay", 2000, Undefined)
          /\ runLog' = Append(runLog, Ev("dispatch", i + 2, Undefined))]_vars

\* Three files: the second was rejected twice with a rate-limit signal and
\* then succeeded; files 1 and 2 are completed, file 3 waits for the
\* inter-unit delay.
C11_Witness ==
  /\ runMode = "pdf"
  /\ Len(runFiles) = 3
  /\ i = 1
  /\ pc = "unitDelay"
  /\ Len(SelectSeq(gwLog, IsReject)) = 2
  /\ Last(gwLog).ev = "resolve"
  /\ Len(pdfFiles) = 3
  /\ pdfFiles[1].status = "completed"
  /\ pdfFiles[2].status = "completed"
  /\ pdfFiles[3].status = "queued"
  /\ error = NULL

\* The number of records in a text of records, and the non-blank contents of
\* the records lo..hi of such a text: marker, text, marker, text, ...
NumRecords(s) == Cardinality({p \in DOMAIN s : s[p] >= 1})
NonBlank(t) == t # 0
RecordsOf(lo, hi) ==
  [p \in 1..(2 * (hi - lo + 1)) |-> IF p % 2 = 1 THEN lo + (p - 1) \div 2 ELSE -1]

\* C12: a run over a text of N well-formed "ID k:" records dispatches its
\* batches in order; batch j (counted from 1) holds exactly the records
\* (j-1)*10+1 .. min(j*10, N) in input order, so that every record is in
\* exactly one batch, and a run that ends without failure has dispatched
\* exactly ceil(N/10) batches.
C12_BatchesPartitionRecords ==
  LET N == NumRecords(input)
      dispatched == SelectSeq(runLog, IsDispatch)
      j == Len(dispatched)
  IN runLog # <<>> =>
       /\ \A k \in DOMAIN dispatched : dispatched[k].n = k
       /\ j * 10 < N + 10
       /\ pc \in {"call", "backoff"} =>
            SelectSeq(request, NonBlank) = RecordsOf((j - 1) * 10 + 1, Min(j * 10, N))
       /\ (pc = "idle" /\ Last(runLog).ev = "ok") => j = (N + 9) \div 10

\* The third batch of 21 records is with the gateway: it holds record 21
C12_Witness ==
  /\ NumRecords(input) = 21
  /\ pc = "call"
  /\ Len(SelectSeq(runLog, IsDispatch)) = 3
  /\ SelectSeq(request, NonBlank) = <<21, -1>>

\* The lines of the responses whose trimmed form starts with "|" and that
\* hold neither "---" nor, in any case, "study id"
IsDataRow(l) == l \in {RowA, RowB, RowIndented}
HoldsRuleOrHeaderToken(l) == l \in {SepLine, HdrLine, RowWithRule, RowStudyIdCaps}

\* C13: for every response the extracted rows are exactly its lines whose
\* trimmed form starts with "|" and that hold no "---" and, lowercased, no
\* "study id", in their original order and number (the empty string when
\* there is none); no extracted line holds "---" or the header token.
C13_ExtractedRows ==
  extracted # NotApplied =>
    LET want == SelectSeq(analysis, IsDataRow)
    IN /\ extracted = (IF want = <<>> THEN <<"">> ELSE want)
       /\ \A p \in DOMAIN extracted : ~HoldsRuleOrHeaderToken(extracted[p])

\* Two data rows around a row that holds "---": both are kept, in order
C13_Witness ==
  /\ analysis = <<RowB, RowWithRule, RowA>>
  /\ extracted = <<RowB, RowA>>

\* C14: appending is associative: accumulating a first response and then a
\* second one onto a result gives the same accumulated result as
\* accumulating the one response made of the first followed by the second,
\* also when no row of a response survives the extraction.
C14_AppendAssociative ==
  (twoSteps # NotApplied /\ oneStep # NotApplied) => twoSteps = oneStep

\* The lines of an instruction that look like the header line and like the
\* separator line of a markdown table
HeaderLike(l) == l \in {PromptHdr, HdrLine}
SeparatorLike(l) == l \in {PromptSep, SepLine}

\* The first header line of the instruction that its separator line
\* follows, with that separator line; the default pair when there is none
ExpectedHeader(prompt) ==
  LET pairs == {k \in 1..(Len(prompt) - 1) :
                  HeaderLike(prompt[k]) /\ SeparatorLike(prompt[k + 1])}
  IN IF pairs = {}
     THEN <<"| Study ID | Paper title | Data |", "|---|---|---|">>
     ELSE LET k == CHOOSE m \in pairs : \A n \in pairs : m <= n
          IN <<prompt[k], prompt[k + 1]>>

\* C15: the step that starts a run makes the header of the accumulated
\* result the first table header line of the instruction together with its
\* separator line, or the default pair when the instruction has no table
\* markup; no step of the run changes the header afterwards.
C15_HeaderFromInstruction ==
  [][/\ (lastOp' = "request" /\ ops' # ops) =>
          /\ tableHeader' = ExpectedHeader(userPrompt)
          /\ accumulatedResult' = ExpectedHeader(userPrompt)
     /\ (loading /\ ops' = ops) => tableHeader' = tableHeader]_vars

\* Nothing of the pipeline is shown: no result, no file, no error
ClearedView ==
  /\ result = EmptyStr
  /\ pdfFiles = <<>>
  /\ error = NULL

\* C16: Clear leaves the result and the file list empty and the error
\* unset, and no step other than a user operation (a run request, an upload,
\* an edit) changes that afterwards, also when a run is in flight at the
\* Clear: the run's later steps bring back neither rows nor an error.
C16_ClearDiscards ==
  [][/\ (cleared' /\ ~cleared) => ClearedView'
     /\ (cleared /\ ClearedView /\ ops' = ops) => ClearedView']_vars

\* Scenario A: a run over a text of two records has ended without failure,
\* and the response was a data row, a separator line and the same data row
ScenarioA ==
  /\ NumRecords(input) = 2
  /\ pc = "idle"
  /\ runLog # <<>>
  /\ Last(runLog).ev = "ok"
  /\ analysis = <<"| 1 | X | ok |", "|---|---|---|", "| 1 | X | ok |">>

DataRowCount(res) == Len(SelectSeq(res, IsDataRow))

\* C17 as stated: in scenario A there is exactly 1 work unit, which holds
\* both records, and the final result holds exactly one data row.
C17_ScenarioAOneRow ==
  ScenarioA =>
    /\ Len(SelectSeq(runLog, IsDispatch)) = 1
    /\ SelectSeq(request, NonBlank) = <<1, -1, 2, -1>>
    /\ DataRowCount(result) = 1

\* C17 as amended: in scenario A there is exactly 1 work unit, which holds
\* both records, and the final result is the default header, its separator
\* and the data row twice: exactly two data rows, the repeated row is kept.
C17_ScenarioATwoRows ==
  ScenarioA =>
    /\ Len(SelectSeq(runLog, IsDispatch)) = 1
    /\ SelectSeq(request, NonBlank) = <<1, -1, 2, -1>>
    /\ DataRowCount(result) = 2
    /\ result = <<"| Study ID | Paper title | Data |", "|---|---|---|",
                  "| 1 | X | ok |", "| 1 | X | ok |">>

C17_Witness ==
  /\ ScenarioA
  /\ Len(unitRows) = 1
  /\ result = accumulatedResult
  /\ DataRowCount(result) = 2

\* C18: every backoff wait of a gateway call follows an attempt k that was
\* rejected with a rate-limit signal, lasts 2^k * 2000 ms, and is followed
\* by attempt k+1 for the same unit: no wait is followed directly by the
\* failure of the call.
C18_EveryWaitThenRetry ==
  \A p \in DOMAIN gwLog :
    IsBackoff(gwLog[p]) =>
      /\ p > 1
      /\ IsReject(gwLog[p - 1])
      /\ RateLimitSignal(gwLog[p - 1].err)
      /\ gwLog[p].n = (2 ^ gwLog[p - 1].n) * 2000
      /\ p < Len(gwLog) => gwLog[p + 1] = Ev("attempt", gwLog[p - 1].n + 1, Undefined)

Processing == {k \in DOMAIN pdfFiles : pdfFiles[k].status = "processing"}
Count(log, kind) == Cardinality({p \in DOMAIN log : log[p].ev = kind})

\* C19: units are processed one after the other: the run has at most one
\* unit dispatched and not yet finished (one gateway call in flight), at
\* most one file has status processing and it is the file of that unit;
\* unit n+1 is dispatched only after unit n has completed, the files of the
\* units before the current one being completed; and while no run is
\* running no file has status processing.
C19_StrictlySequential ==
  /\ Cardinality(Processing) <= 1
  /\ Count(runLog, "dispatch") - Count(runLog, "ok") - Count(runLog, "fail") \in {0, 1}
  /\ (Count(runLog, "dispatch") - Count(runLog, "ok") - Count(runLog, "fail") = 1)
       = (pc \in {"encoding", "call", "backoff"})
  /\ \A p \in DOMAIN runLog :
       (runLog[p].ev = "dispatch" /\ runLog[p].n > 1) =>
         /\ p > 2
         /\ runLog[p - 2] = Ev("ok", runLog[p].n - 1, Undefined)
  /\ \A k \in Processing :
       /\ loading
       /\ runMode = "pdf"
       /\ pc \in {"encoding", "call", "backoff"}
       /\ pdfFiles[k].id = runFiles[i + 1].id
  /\ (loading /\ runMode = "pdf") =>
       \A k \in DOMAIN pdfFiles : \A j \in 1..i :
         pdfFiles[k].id = runFiles[j].id => pdfFiles[k].status = "completed"
  /\ ~loading => Processing = {}

\* The second of three files is with the gateway: the first is completed,
\* the third still queued
C19_Witness ==
  /\ runMode = "pdf"
  /\ pc = "call"
  /\ Len(pdfFiles) = 3
  /\ pdfFiles[1].status = "completed"
  /\ pdfFiles[2].status = "processing"
  /\ pdfFiles[3].status = "queued"
  /\ Count(runLog, "dispatch") = 2

\* C20: when every pending file read, gateway call and timer returns in the
\* end, every run that has started ends: it reaches the state where the
\* loop is left after the success of its last unit or after a failure, and
\* loading is false again.
C20_RunTerminates ==
  (pc # "idle") ~>
    (pc = "idle" /\ ~loading /\ runLog # <<>> /\ Last(runLog).ev \in {"ok", "fail"})

\* A run has ended at its second unit after the retries of the gateway call
\* were used up
C20_Witness ==
  /\ pc = "idle"
  /\ ~loading
  /\ Exhausted
  /\ Len(runLog) = 5
  /\ Last(runLog).ev = "fail"
  /\ Last(runLog).n = 2

\* The step in which a run ends with loading false and without an error of
\* its own
EndsSucceeded == loading /\ ~loading' /\ errorSets' = 0

\* What holds of the units when a run ends so: each was dispatched once and
\* completed, in order; the counters are equal; the accumulated result, which
\* is the one shown, is the header and the row group of every unit
AllUnitsDone ==
  /\ SelectSeq(runLog', IsDispatch) = [k \in 1..NumUnits |-> Ev("dispatch", k, Undefined)]
  /\ SelectSeq(runLog', IsOk) = [k \in 1..NumUnits |-> Ev("ok", k, Undefined)]
  /\ progress'.current = progress'.total
  /\ progress'.total = Total
  /\ Len(unitRows') = NumUnits
  /\ accumulatedResult' = tableHeader \o Flatten(unitRows')
  /\ result' = accumulatedResult'

\* C21 as stated: a run ends with loading false and no error of its own only
\* if every unit was dispatched exactly once and succeeded: in file mode
\* every file of the run has status completed, the completed count equals
\* the total count, and the accumulated result holds the row group of every
\* unit.
C21_SucceededMeansAllDone ==
  [][EndsSucceeded =>
       /\ AllUnitsDone
       /\ runMode = "pdf" =>
            \A j \in DOMAIN runFiles : \E k \in DOMAIN pdfFiles' :
              /\ pdfFiles'[k].id = runFiles[j].id
              /\ pdfFiles'[k].status = "completed"]_vars

\* C21 as amended: ... in file mode every file of the run that is still in
\* the file list when the run ends has status completed (a file that the
\* user removed during the run has no status any more), the completed count
\* equals the total count, and the accumulated result holds the row group of
\* every unit.
C21_SucceededMeansAllListedDone ==
  [][EndsSucceeded =>
       /\ AllUnitsDone
       /\ runMode = "pdf" =>
            \A j \in DOMAIN runFiles : \A k \in DOMAIN pdfFiles' :
              pdfFiles'[k].id = runFiles[j].id => pdfFiles'[k].status = "completed"]_vars

\* A run over three files has ended without error: the three are completed
C21_Witness ==
  /\ runMode = "pdf"
  /\ pc = "idle"
  /\ ~loading
  /\ errorSets = 0
  /\ Len(runFiles) = 3
  /\ Len(unitRows) = 3
  /\ Len(pdfFiles) = 3
  /\ \A k \in 1..3 : pdfFiles[k].status = "completed"
  /\ progress = [current |-> 3, total |-> 3]

Ids(files) == [k \in DOMAIN files |-> files[k].id]

\* The file that is with the gateway is the file at the place of the
\* current dispatch in the run's sequence
SentInSequence ==
  (runMode = "pdf" /\ pc \in {"call", "backoff"}) =>
    request = <<runFiles[Count(runLog, "dispatch")].id>>

\* The units were dispatched in the order of the sequence, each at most once
DispatchedInOrder ==
  LET dispatched == SelectSeq(runLog, IsDispatch)
  IN /\ Len(dispatched) <= NumUnits
     /\ \A k \in DOMAIN dispatched : dispatched[k].n = k

\* C22: the work sequence of a run is the file list (the records) at the
\* step that starts the run and no step changes it while the run is in
\* flight, an upload, a removal and Clear included; the run dispatches the
\* units of that sequence in order, each at most once, and sends the file at
\* the unit's place in it, whether or not the file is still listed; a run
\* that ends without failure has dispatched the whole sequence and nothing
\* else.
C22_WorkSequenceFixed ==
  [][/\ (lastOp' = "request" /\ ops' # ops /\ mode = "pdf") => Ids(runFiles') = Ids(pdfFiles)
     /\ (loading /\ loading') =>
          /\ runFiles' = runFiles
          /\ papers' = papers
          /\ runMode' = runMode
     /\ SentInSequence'
     /\ DispatchedInOrder'
     /\ EndsSucceeded => Count(runLog', "dispatch") = NumUnits]_vars

\* The second file of a run is with the gateway although the user removed it
\* from the list during the run
C22_Witness ==
  /\ runMode = "pdf"
  /\ pc = "call"
  /\ Len(runFiles) = 2
  /\ request = <<runFiles[2].id>>
  /\ Ids(pdfFiles) = <<runFiles[1].id>>

====
